---- MODULE Spec2Model ----
(***************************************************************************)
(* Riemann World Alchemist: src/src/WorldGen.py (WorldAlchemist) and the   *)
(* Gradio wrapper src/app.py (generate_world_view).                        *)
(*                                                                         *)
(* Number representation.  The program computes with Python ints and IEEE  *)
(* doubles.  Ints are modelled as integers.  Each double is modelled by an *)
(* exact scaled value:                                                     *)
(*   sea_level        [q, r]: q twentieths (0.5 + 0.05*d = (10+d)/20) and  *)
(*                    r, the sign of the rounding error of the double      *)
(*                    0.5 + (0.05*d) against the double literal q/20       *)
(*   roughness        tenths (0.1 * form)                                  *)
(*   vegetation       tenths (0.1 * vitality * min(flux, form)); for all   *)
(*                    counts below 40 the double compares with 0.5 and 5.0 *)
(*                    and truncates in int(10/vegetation) as the exact     *)
(*                    value does                                           *)
(*   stability_score  [num, den], the quotient min/max                     *)
(***************************************************************************)
EXTENDS Integers, Sequences, FiniteSets, TLC

(* ------------------------------ bounds -------------------------------- *)
MaxNegSeed == 3
MaxSeed == 60
MaxCount == 12
MaxVitality == 11
MaxAether == 1
Width == 3
MaxHeight == 2
MaxVegProbe == 52
MaxSeaProbe == 19

(* ----------------------------- constants ------------------------------ *)
Threads == {1, 2}
ReportLines == 8
ExampleSeeds == {29160000, 1080, 118098, 58}
None == "None"
Orig == 0
Artifact == "world_gen.png"

(* the inputs of the Gradio number field: an integer, or nothing *)
IntInput(n) == [kind |-> "int", val |-> n]
NoInput == [kind |-> "none", val |-> 0]

(* ===================== WorldGen.py: pure functions ===================== *)

ELEMENTS == {2, 3, 5, 7, 11}

Min(a, b) == IF a < b THEN a ELSE b
Max(a, b) == IF a > b THEN a ELSE b

(* Counter.get(p, 0) and Counter[p]: a missing key reads as 0 *)
Get(factors, p) == IF p \in DOMAIN factors THEN factors[p] ELSE 0

(* Counter(list): one key per distinct element, valued by its occurrences *)
Counter(list) ==
    LET keys == {list[k] : k \in 1..Len(list)}
    IN  [p \in keys |-> Cardinality({k \in 1..Len(list) : list[k] = p})]

(* mutant: the loops without the final "if n > 1: factors.append(n)" *)
RECURSIVE DecomposeLoopNoRemainder(_, _, _)
DecomposeLoopNoRemainder(i, n, factors) ==
    IF i * i <= n
    THEN IF n % i = 0
         THEN DecomposeLoopNoRemainder(i, n \div i, Append(factors, i))
         ELSE DecomposeLoopNoRemainder(i + 1, n, factors)
    ELSE factors

(* the two nested while loops of _decompose, one iteration per unfolding *)
RECURSIVE DecomposeLoop(_, _, _)
DecomposeLoop(i, n, factors) ==
    IF i * i <= n
    THEN IF n % i = 0
         THEN DecomposeLoop(i, n \div i, Append(factors, i))
         ELSE DecomposeLoop(i + 1, n, factors)
    ELSE IF n > 1 THEN Append(factors, n) ELSE factors

_decompose(n) == Counter(DecomposeLoop(2, n, <<>>))

(* sign of the rounding error of the double 0.5 + (0.05 * d) *)
SkewBelow == {-29, -28, -27, -24, -23, -22, -19, -17, -16, -14, -13, -12,
              -11, -9, -8, -7, -6}
SkewAbove == {7, 14, 19, 23, 24, 28, 29}
FloatSkew(d) == IF d \in SkewBelow THEN -1 ELSE IF d \in SkewAbove THEN 1 ELSE 0

(* sea < k/20 and sea > k/20 on doubles *)
SeaLt(sea, k) == sea.q < k \/ (sea.q = k /\ sea.r < 0)
SeaGt(sea, k) == sea.q > k \/ (sea.q = k /\ sea.r > 0)

UNSTABLE == "UNSTABLE ISOTOPE (Chaotic Wasteland)"
OCEANIC == "OCEANIC WORLD (Flooded)"
ARID == "ARID DESERT (Drought)"
OVERGROWN == "OVERGROWN JUNGLE (Unchecked Growth)"
BARREN == "BARREN ROCK (Habitable but Empty)"
GARDEN == "GARDEN OF ECHO (Resonant State)"
BiomeLabels == {UNSTABLE, OCEANIC, ARID, OVERGROWN, BARREN, GARDEN}

(* mutant: the flood test moved ahead of the stability test *)
_diagnose_biome_FloodFirst(sea, veg, stable) ==
    IF SeaGt(sea, 16) THEN OCEANIC
    ELSE IF 10 * stable.num < 3 * stable.den THEN UNSTABLE
    ELSE IF SeaLt(sea, 6) THEN ARID
    ELSE IF veg > 50 THEN OVERGROWN
    ELSE IF veg < 5 THEN BARREN
    ELSE GARDEN

(* mutant: the drought test moved ahead of the stability test *)
_diagnose_biome_DroughtFirst(sea, veg, stable) ==
    IF SeaLt(sea, 6) THEN ARID
    ELSE IF 10 * stable.num < 3 * stable.den THEN UNSTABLE
    ELSE IF SeaGt(sea, 16) THEN OCEANIC
    ELSE IF veg > 50 THEN OVERGROWN
    ELSE IF veg < 5 THEN BARREN
    ELSE GARDEN

_diagnose_biome(sea, veg, stable) ==
    IF 10 * stable.num < 3 * stable.den THEN UNSTABLE
    ELSE IF SeaGt(sea, 16) THEN OCEANIC
    ELSE IF SeaLt(sea, 6) THEN ARID
    ELSE IF veg > 50 THEN OVERGROWN
    ELSE IF veg < 5 THEN BARREN
    ELSE GARDEN

(* shared by the mutants below: a WorldConfig with the drought override   *)
(* switchable and the roughness and stability supplied                    *)
MutantConfig(flux, form, vitality, aether, roughness, drought, stability) ==
    LET sea_level == [q |-> 10 + (flux - form), r |-> FloatSkew(flux - form)]
        vegetation == IF drought /\ SeaLt(sea_level, 4) THEN 0
                      ELSE vitality * Min(flux, form)
    IN  [sea_level |-> sea_level, roughness |-> roughness,
         vegetation |-> vegetation, magic_density |-> aether,
         stability_score |-> stability,
         biome_name |-> _diagnose_biome(sea_level, vegetation, stability)]

BalanceRatio(flux, form) ==
    IF Max(flux, form) > 0
    THEN [num |-> Min(flux, form), den |-> Max(flux, form)]
    ELSE [num |-> 0, den |-> 1]

(* mutant: no drought override of the vegetation *)
_calculate_stoichiometry_NoDrought(factors) ==
    MutantConfig(Get(factors, 2), Get(factors, 3), Get(factors, 5), Get(factors, 7),
             Get(factors, 3), FALSE, BalanceRatio(Get(factors, 2), Get(factors, 3)))

(* mutant: the balance ratio taken as flux / form *)
_calculate_stoichiometry_FluxOverForm(factors) ==
    MutantConfig(Get(factors, 2), Get(factors, 3), Get(factors, 5), Get(factors, 7),
             Get(factors, 3), TRUE,
             IF Get(factors, 3) > 0
             THEN [num |-> Get(factors, 2), den |-> Get(factors, 3)]
             ELSE [num |-> 0, den |-> 1])

(* mutant: roughness taken from the number of distinct prime factors *)
_calculate_stoichiometry_AllFactors(factors) ==
    MutantConfig(Get(factors, 2), Get(factors, 3), Get(factors, 5), Get(factors, 7),
             Cardinality(DOMAIN factors), TRUE,
             BalanceRatio(Get(factors, 2), Get(factors, 3)))

_calculate_stoichiometry(factors) ==
    LET flux == Get(factors, 2)
        form == Get(factors, 3)
        vitality == Get(factors, 5)
        aether == Get(factors, 7)
        sea_level == [q |-> 10 + (flux - form), r |-> FloatSkew(flux - form)]
        roughness == form
        vegetation == IF SeaLt(sea_level, 4) THEN 0
                      ELSE vitality * Min(flux, form)
        stability == IF Max(flux, form) > 0
                     THEN [num |-> Min(flux, form), den |-> Max(flux, form)]
                     ELSE [num |-> 0, den |-> 1]
        biome == _diagnose_biome(sea_level, vegetation, stability)
    IN  [sea_level |-> sea_level, roughness |-> roughness,
         vegetation |-> vegetation, magic_density |-> aether,
         stability_score |-> stability, biome_name |-> biome]

NoConfig == [biome_name |-> None]

(* WorldAlchemist.__init__ *)
WorldAlchemist(knowledge_seed) ==
    LET factors == _decompose(knowledge_seed)
    IN  [seed |-> knowledge_seed, factors |-> factors,
         config |-> _calculate_stoichiometry(factors)]

NoSim == [seed |-> 0, factors |-> <<>>, config |-> NoConfig]

(* ---------------------- render_slice: the terrain --------------------- *)
(* terrain = sin(x*freq)*amp + cos(x*freq*0.5) over the samples of x: the  *)
(* elevations are modelled as any profile of Width samples (an over-       *)
(* approximation of the sinusoid), then shifted as the code shifts them    *)
RawTerrains == [0..(Width - 1) -> 0..MaxHeight]

SeqMin(f) == CHOOSE m \in {f[k] : k \in DOMAIN f} : \A k \in DOMAIN f : m <= f[k]
SeqMax(f) == CHOOSE m \in {f[k] : k \in DOMAIN f} : \A k \in DOMAIN f : m >= f[k]

(* terrain = terrain - terrain.min() *)
Shift(raw) == [k \in DOMAIN raw |-> raw[k] - SeqMin(raw)]

(* x[::step]: the sample indices 0, step, 2*step, ... *)
Stride(step) == {k \in 0..(Width - 1) : k % step = 0}

(* veg_y >= water_height, with water_height = max_height * sea_level *)
AboveWater(y, max_height, sea) ==
    \/ 20 * y > max_height * sea.q
    \/ 20 * y = max_height * sea.q /\ (sea.r <= 0 \/ max_height = 0)

(* int(10 / vegetation) *)
VegStep(vegetation) == 100 \div vegetation

(* mutant: the markers without the "only plant above water" mask *)
PlaceVegetationUnmasked(terrain, config) ==
    IF config.vegetation > 5
    THEN LET veg_x == Stride(VegStep(config.vegetation))
             max_height == SeqMax(terrain)
         IN  {[x |-> k, y |-> terrain[k], max_height |-> max_height] : k \in veg_x}
    ELSE {}

(* lines 158-164: the markers scattered for one terrain *)
PlaceVegetation(terrain, config) ==
    IF config.vegetation > 5
    THEN LET veg_x == Stride(VegStep(config.vegetation))
             max_height == SeqMax(terrain)
             valid_veg == {k \in veg_x :
                              AboveWater(terrain[k], max_height, config.sea_level)}
         IN  {[x |-> k, y |-> terrain[k], max_height |-> max_height] : k \in valid_veg}
    ELSE {}

(* the report printed by lines 171-178, one entry per print call *)
ReportLine(k, s) == [no |-> k, seed |-> s.seed]
Report(s) == [k \in 1..ReportLines |-> ReportLine(k, s)]
ErrorText == <<[no |-> 0, seed |-> 0]>>

(* ============================ the state ================================ *)
VARIABLES
    pc,          \* per call: the line of generate_world_view it is at
    input,       \* per call: the seed argument
    old_stdout,  \* per call: the local old_stdout
    sim,         \* per call: the WorldAlchemist being built or rendered
    line,        \* per call: the next print of render_slice
    veg_points,  \* per call: the vegetation markers scattered
    output,      \* per call: the value returned
    sys_stdout,  \* the process-wide sys.stdout: Orig or a call's StringIO
    streams,     \* the text written to each stream
    png,         \* the seed whose image world_gen.png holds, None if absent
    probe        \* a stand-alone _diagnose_biome evaluation

vars == <<pc, input, old_stdout, sim, line, veg_points, output, sys_stdout,
          streams, png, probe>>

StreamIds == {Orig} \cup Threads
NoOutput == [img |-> "pending", text |-> <<>>]
NoProbe == [sea |-> [q |-> 10, r |-> 0], veg |-> 0,
            stable |-> [num |-> 0, den |-> 1], label |-> None]

(* -------------------- app.py: generate_world_view --------------------- *)
(* lines 14-15: old_stdout = sys.stdout; new_stdout = io.StringIO() *)
Capture(t) ==
    /\ pc[t] = "l14"
    /\ old_stdout' = [old_stdout EXCEPT ![t] = sys_stdout]
    /\ streams' = [streams EXCEPT ![t] = <<>>]
    /\ pc' = [pc EXCEPT ![t] = "l16"]
    /\ UNCHANGED <<input, sim, line, veg_points, output, sys_stdout, png, probe>>

(* line 16: sys.stdout = new_stdout *)
Redirect(t) ==
    /\ pc[t] = "l16"
    /\ sys_stdout' = t
    /\ pc' = [pc EXCEPT ![t] = "l21"]
    /\ UNCHANGED <<input, old_stdout, sim, line, veg_points, output, streams, png, probe>>

(* lines 21-22: seed = int(seed); sim = WorldAlchemist(seed) *)
Construct(t) ==
    /\ pc[t] = "l21"
    /\ input[t].kind = "int"
    /\ sim' = [sim EXCEPT ![t] = WorldAlchemist(input[t].val)]
    /\ pc' = [pc EXCEPT ![t] = "l28"]
    /\ UNCHANGED <<input, old_stdout, line, veg_points, output, sys_stdout, streams, png, probe>>

(* line 21: int(None) raises TypeError *)
ConstructRaise(t) ==
    /\ pc[t] = "l21"
    /\ input[t].kind = "none"
    /\ pc' = [pc EXCEPT ![t] = "l36"]
    /\ UNCHANGED <<input, old_stdout, sim, line, veg_points, output, sys_stdout, streams, png, probe>>

(* WorldGen.py line 59 alone: self.config = self._calculate_stoichiometry() *)
Stoichiometry(t) ==
    /\ pc[t] = "l59"
    /\ sim' = [sim EXCEPT ![t].config = _calculate_stoichiometry(sim[t].factors)]
    /\ pc' = [pc EXCEPT ![t] = "l28"]
    /\ UNCHANGED <<input, old_stdout, line, veg_points, output, sys_stdout, streams, png, probe>>

(* render_slice lines 130-169: terrain, water cutoff, the four layers; at *)
(* line 160 a step of 0 makes x[::0] raise ValueError                      *)
RenderPlot(t) ==
    /\ pc[t] = "l28"
    /\ IF sim[t].config.vegetation > 5 /\ VegStep(sim[t].config.vegetation) = 0
       THEN /\ pc' = [pc EXCEPT ![t] = "l36"]
            /\ UNCHANGED <<line, veg_points>>
       ELSE /\ \E raw \in RawTerrains :
                  veg_points' = [veg_points EXCEPT ![t] =
                                    PlaceVegetation(Shift(raw), sim[t].config)]
            /\ line' = [line EXCEPT ![t] = 1]
            /\ pc' = [pc EXCEPT ![t] = "l171"]
    /\ UNCHANGED <<input, old_stdout, sim, output, sys_stdout, streams, png, probe>>

(* render_slice lines 171-178: one print, to whatever sys.stdout is now *)
PrintLine(t) ==
    /\ pc[t] = "l171"
    /\ streams' = [streams EXCEPT ![sys_stdout] = Append(@, ReportLine(line[t], sim[t]))]
    /\ line' = [line EXCEPT ![t] = @ + 1]
    /\ pc' = [pc EXCEPT ![t] = IF line[t] = ReportLines THEN "l181" ELSE "l171"]
    /\ UNCHANGED <<input, old_stdout, sim, veg_points, output, sys_stdout, png, probe>>

(* render_slice lines 180-181: plt.savefig('world_gen.png') *)
SaveFig(t) ==
    /\ pc[t] = "l181"
    /\ png' = IntInput(sim[t].seed)
    /\ pc' = [pc EXCEPT ![t] = "l31"]
    /\ UNCHANGED <<input, old_stdout, sim, line, veg_points, output, sys_stdout, streams, probe>>

(* lines 31-33: output_text = new_stdout.getvalue(); the return value *)
GetValue(t) ==
    /\ pc[t] = "l31"
    /\ output' = [output EXCEPT ![t] = [img |-> Artifact, text |-> streams[t]]]
    /\ pc' = [pc EXCEPT ![t] = "l39"]
    /\ UNCHANGED <<input, old_stdout, sim, line, veg_points, sys_stdout, streams, png, probe>>

(* lines 35-36: except Exception: return None, "Error: ..." *)
Except(t) ==
    /\ pc[t] = "l36"
    /\ output' = [output EXCEPT ![t] = [img |-> None, text |-> ErrorText]]
    /\ pc' = [pc EXCEPT ![t] = "l39"]
    /\ UNCHANGED <<input, old_stdout, sim, line, veg_points, sys_stdout, streams, png, probe>>

(* lines 37-39: finally: sys.stdout = old_stdout *)
Finally(t) ==
    /\ pc[t] = "l39"
    /\ sys_stdout' = old_stdout[t]
    /\ pc' = [pc EXCEPT ![t] = "done"]
    /\ UNCHANGED <<input, old_stdout, sim, line, veg_points, output, streams, png, probe>>

(* a stand-alone call of _diagnose_biome(sea, veg, stable) *)
Diagnose ==
    /\ probe.label = None
    /\ probe' = [probe EXCEPT !.label = _diagnose_biome(probe.sea, probe.veg, probe.stable)]
    /\ UNCHANGED <<pc, input, old_stdout, sim, line, veg_points, output, sys_stdout, streams, png>>

(* ======================== the specifications ========================== *)
Idle == [t \in Threads |-> "idle"]

InitLocals ==
    /\ old_stdout = [t \in Threads |-> Orig]
    /\ line = [t \in Threads |-> 0]
    /\ veg_points = [t \in Threads |-> {}]
    /\ output = [t \in Threads |-> NoOutput]
    /\ streams = [id \in StreamIds |-> <<>>]
    /\ png = NoInput

(* two calls of generate_world_view in flight in the server's worker threads *)
ConcFirst == {IntInput(6), NoInput}
ConcSecond == {IntInput(78)}

Init ==
    /\ pc = [t \in Threads |-> "l14"]
    /\ input \in {[t \in Threads |-> IF t = 1 THEN a ELSE b] :
                     a \in ConcFirst, b \in ConcSecond}
    /\ sim = [t \in Threads |-> NoSim]
    /\ sys_stdout = Orig
    /\ probe = NoProbe
    /\ InitLocals

Call(t) ==
    \/ Capture(t)
    \/ Redirect(t)
    \/ Construct(t)
    \/ ConstructRaise(t)
    \/ RenderPlot(t)
    \/ PrintLine(t)
    \/ SaveFig(t)
    \/ GetValue(t)
    \/ Except(t)
    \/ Finally(t)

Next == \E t \in Threads : Call(t)

Spec == Init /\ [][Next]_vars

(* one call of generate_world_view at a time *)
ChainSeeds == ((0 - MaxNegSeed)..MaxSeed) \cup ExampleSeeds
ChainInputs == {IntInput(n) : n \in ChainSeeds} \cup {NoInput}

InitChain ==
    /\ pc = [Idle EXCEPT ![1] = "l14"]
    /\ input \in {[t \in Threads |-> IF t = 1 THEN in ELSE NoInput] : in \in ChainInputs}
    /\ sim = [t \in Threads |-> NoSim]
    /\ sys_stdout = Orig
    /\ probe = NoProbe
    /\ InitLocals

SpecChain == InitChain /\ [][Next]_vars

(* a WorldAlchemist under construction at WorldGen.py line 59, inside the  *)
(* call of app.py line 22: self.factors holds the factorization of a seed  *)
(* 2^a * 3^b * 5^c * 7^d, which may be beyond the checker's integers, so   *)
(* self.seed is not tracked here (0)                                       *)
FactorCounts(a, b, c, d) ==
    LET m == (2 :> a) @@ (3 :> b) @@ (5 :> c) @@ (7 :> d)
    IN  [p \in {x \in {2, 3, 5, 7} : m[x] > 0} |-> m[p]]

WorldFactors ==
    {FactorCounts(a, b, c, d) : a \in 0..MaxCount, b \in 0..MaxCount,
                                c \in 0..MaxVitality, d \in 0..MaxAether}

InitWorld ==
    /\ pc = [Idle EXCEPT ![1] = "l59"]
    /\ input = [t \in Threads |-> NoInput]
    /\ sim \in {[t \in Threads |-> IF t = 1 THEN [NoSim EXCEPT !.factors = f] ELSE NoSim] :
                   f \in WorldFactors}
    /\ sys_stdout = 1
    /\ probe = NoProbe
    /\ InitLocals

NextWorld ==
    \E t \in Threads :
        \/ Stoichiometry(t)
        \/ RenderPlot(t)
        \/ PrintLine(t)
        \/ SaveFig(t)
        \/ GetValue(t)
        \/ Except(t)
        \/ Finally(t)

SpecWorld == InitWorld /\ [][NextWorld]_vars

(* _diagnose_biome applied to any triple of doubles *)
ProbeTriples ==
    {[sea |-> [q |-> q, r |-> r], veg |-> v, stable |-> [num |-> n, den |-> 10],
      label |-> None] :
        q \in 0..MaxSeaProbe, r \in {-1, 0, 1}, v \in 0..MaxVegProbe, n \in 0..10}

InitBiome ==
    /\ pc = Idle
    /\ input = [t \in Threads |-> NoInput]
    /\ sim = [t \in Threads |-> NoSim]
    /\ sys_stdout = Orig
    /\ probe \in ProbeTriples
    /\ InitLocals

NextBiome == Diagnose

SpecBiome == InitBiome /\ [][NextBiome]_vars

(* two calls that have both reached app.py line 21 (the second redirected  *)
(* stdout after the first), each about to build its WorldAlchemist         *)
InitPair ==
    /\ pc = [t \in Threads |-> "l21"]
    /\ input \in [Threads -> ChainInputs]
    /\ sim = [t \in Threads |-> NoSim]
    /\ sys_stdout = 2
    /\ probe = NoProbe
    /\ old_stdout = [t \in Threads |-> IF t = 1 THEN Orig ELSE 1]
    /\ line = [t \in Threads |-> 0]
    /\ veg_points = [t \in Threads |-> {}]
    /\ output = [t \in Threads |-> NoOutput]
    /\ streams = [id \in StreamIds |-> <<>>]
    /\ png = NoInput

NextPair == \E t \in Threads : Construct(t) \/ ConstructRaise(t)

SpecPair == InitPair /\ [][NextPair]_vars

(* ============================== claims ================================ *)
Built(t) == sim[t].config.biome_name # None
Returned(t) == pc[t] = "done"

RECURSIVE Pow(_, _)
Pow(b, e) == IF e = 0 THEN 1 ELSE b * Pow(b, e - 1)

RECURSIVE Product(_)
Product(f) ==
    IF DOMAIN f = {} THEN 1
    ELSE LET p == CHOOSE x \in DOMAIN f : TRUE
         IN  Pow(p, f[p]) * Product([x \in DOMAIN f \ {p} |-> f[x]])

IsPrime(p) == p > 1 /\ \A d \in 2..(p - 1) : p % d # 0

(* C1: for every seed n >= 1 the factors of WorldAlchemist(n) have prime   *)
(* keys, multiplicities >= 1 and product n; for n = 1 they are empty and   *)
(* for a prime n they are exactly {n: 1}.                                  *)
C1_DecomposeIsFactorization ==
    \A t \in Threads :
        (Built(t) /\ input[t].kind = "int" /\ input[t].val >= 1) =>
            LET n == input[t].val
                f == sim[t].factors
            IN  /\ \A p \in DOMAIN f : IsPrime(p) /\ f[p] >= 1
                /\ Product(f) = n
                /\ (n = 1 => DOMAIN f = {})
                /\ (IsPrime(n) => (DOMAIN f = {n} /\ f[n] = 1))

C1_Witness ==
    \E t \in Threads :
        /\ Built(t)
        /\ input[t].val = 36
        /\ DOMAIN sim[t].factors = {2, 3}
        /\ sim[t].factors[2] = 2 /\ sim[t].factors[3] = 2

(* C2: a seed n <= 0 makes the call return no image and an error message,  *)
(* and writes no image artifact.                                           *)
C2_NonPositiveSeedRejected ==
    \A t \in Threads :
        (Returned(t) /\ input[t].kind = "int" /\ input[t].val <= 0) =>
            /\ output[t].img = None
            /\ output[t].text = ErrorText
            /\ png = NoInput

(* C3: given the factorization of a seed n >= 1, no stage after the        *)
(* factorization raises: the call never reaches its except clause and      *)
(* returns the image path.                                                 *)
C3_DownstreamNeverFails ==
    \A t \in Threads :
        /\ (Built(t) => pc[t] # "l36")
        /\ ((Built(t) /\ Returned(t)) => output[t].img = Artifact)

(* C4 as stated: sea_level < 0.2 if and only if vegetation = 0.            *)
C4_DroughtIffNoVegetation ==
    \A t \in Threads :
        Built(t) =>
            (SeaLt(sim[t].config.sea_level, 4) <=> sim[t].config.vegetation = 0)

(* C4 amended: sea_level < 0.2 implies vegetation = 0 whatever vitality    *)
(* is; vegetation = 0 if and only if sea_level < 0.2 or vitality = 0 or    *)
(* min(flux, form) = 0.                                                    *)
C4_DroughtImpliesNoVegetation ==
    \A t \in Threads :
        Built(t) =>
            LET c == sim[t].config
                f == sim[t].factors
                dry == c.sea_level.q < 4 \/ (c.sea_level.q = 4 /\ c.sea_level.r < 0)
            IN  /\ dry => c.vegetation = 0
                /\ c.vegetation = 0 <=>
                      (dry \/ Get(f, 5) = 0 \/ Get(f, 2) = 0 \/ Get(f, 3) = 0)

C4_Witness ==
    \E t \in Threads :
        /\ Built(t)
        /\ SeaLt(sim[t].config.sea_level, 4)
        /\ Get(sim[t].factors, 5) > 0
        /\ Get(sim[t].factors, 2) > 0
        /\ sim[t].config.vegetation = 0

(* C5: _diagnose_biome maps every triple to exactly one of the six labels, *)
(* the one of the first matching rule in the order stability < 0.3,        *)
(* sea_level > 0.8, sea_level < 0.3, vegetation > 5.0, vegetation < 0.5,   *)
(* else the garden; stability < 0.3 always gives UNSTABLE.                 *)
C5_BiomeTotalAndOrdered ==
    probe.label # None =>
        LET unstable == 10 * probe.stable.num < 3 * probe.stable.den
            flooded == probe.sea.q > 16 \/ (probe.sea.q = 16 /\ probe.sea.r > 0)
            dry == probe.sea.q < 6 \/ (probe.sea.q = 6 /\ probe.sea.r < 0)
            jungle == probe.veg > 50
            empty == probe.veg < 5
        IN  /\ probe.label \in BiomeLabels
            /\ unstable => probe.label = UNSTABLE
            /\ probe.label = UNSTABLE <=> unstable
            /\ probe.label = OCEANIC <=> (~unstable /\ flooded)
            /\ probe.label = ARID <=> (~unstable /\ ~flooded /\ dry)
            /\ probe.label = OVERGROWN <=> (~unstable /\ ~flooded /\ ~dry /\ jungle)
            /\ probe.label = BARREN <=>
                  (~unstable /\ ~flooded /\ ~dry /\ ~jungle /\ empty)
            /\ probe.label = GARDEN <=>
                  (~unstable /\ ~flooded /\ ~dry /\ ~jungle /\ ~empty)

C5_Witness ==
    /\ probe.label = UNSTABLE
    /\ probe.sea.q > 16
    /\ probe.veg > 50
    /\ probe.stable.num = 2

(* C6: for every interleaving of two calls with different seeds, each call *)
(* returns exactly the report lines of its own seed, and once both have    *)
(* returned sys.stdout is the stream it was before either call started.    *)
C6_CallsShareNoStdout ==
    /\ \A t \in Threads :
          (Returned(t) /\ output[t].img = Artifact) => output[t].text = Report(sim[t])
    /\ (\A t \in Threads : Returned(t)) => sys_stdout = Orig

(* C7: every vegetation marker placed lies at a sample whose shifted       *)
(* elevation is at or above max_height * sea_level, and no marker is       *)
(* placed when vegetation <= 0.5.                                          *)
C7_VegetationAboveWater ==
    \A t \in Threads :
        /\ \A m \in veg_points[t] :
              20 * m.y >= m.max_height * sim[t].config.sea_level.q
        /\ (Built(t) /\ sim[t].config.vegetation <= 5) => veg_points[t] = {}

C7_Witness ==
    \E t \in Threads :
        /\ pc[t] = "l171"
        /\ veg_points[t] # {}
        /\ Cardinality(veg_points[t]) < Cardinality(Stride(VegStep(sim[t].config.vegetation)))

(* C8: stability_score lies in [0,1]; it is exactly 1 when flux = form > 0 *)
(* and 0 when flux or form is 0.                                           *)
C8_StabilityRange ==
    \A t \in Threads :
        Built(t) =>
            LET st == sim[t].config.stability_score
                flux == Get(sim[t].factors, 2)
                form == Get(sim[t].factors, 3)
            IN  /\ st.den > 0
                /\ 0 <= st.num /\ st.num <= st.den
                /\ (flux = form /\ flux > 0) => st.num = st.den
                /\ (flux = 0 \/ form = 0) => st.num = 0

C8_Witness ==
    \E t \in Threads :
        /\ Built(t)
        /\ Get(sim[t].factors, 2) = 4
        /\ Get(sim[t].factors, 3) = 4
        /\ sim[t].config.stability_score.num = sim[t].config.stability_score.den

Reading(f) == [p \in ELEMENTS |-> Get(f, p)]

C10_ConfigDependsOnReadingOnly ==
    /\ \A t \in Threads : Built(t) => sim[t].config.magic_density = Get(sim[t].factors, 7)
    /\ \A t1, t2 \in Threads :
          (Built(t1) /\ Built(t2) /\ Reading(sim[t1].factors) = Reading(sim[t2].factors))
              => sim[t1].config = sim[t2].config

C10_Witness ==
    /\ Built(1) /\ Built(2)
    /\ sim[1].seed = 2 /\ sim[2].seed = 58
    /\ DOMAIN sim[2].factors = {2, 29}
    /\ Reading(sim[1].factors) = Reading(sim[2].factors)
    /\ sim[1].config = sim[2].config
====
